---- MODULE Spec2Model ----
(***************************************************************************)
(* Model of long-running-harness/security.py: the bash command allowlist   *)
(* gate.  A Python str is a sequence of one-character strings; every       *)
(* function of the module is an operator computed the way the code         *)
(* computes it (regular expressions are unfolded into their leftmost,      *)
(* greedy matching rule).                                                   *)
(***************************************************************************)
EXTENDS Naturals, Sequences, FiniteSets, TLC

VARIABLES tool_name, command, pc, names, result

vars == <<tool_name, command, pc, names, result>>

(***************************************************************************)
(* Strings                                                                  *)
(***************************************************************************)

\* Characters matched by \s, removed by str.strip() and str.split().
Whitespace == {" ", "\t", "\n", "\r"}

\* Index of the first character at or after i that is not whitespace
\* (Len(s) + 1 when there is none): the extent of a greedy \s* at i.
RECURSIVE SkipWs(_, _)
SkipWs(s, i) ==
    IF i > Len(s) THEN i
    ELSE IF s[i] \in Whitespace THEN SkipWs(s, i + 1) ELSE i

\* Index of the last character at or before i that is not whitespace.
RECURSIVE SkipWsBack(_, _)
SkipWsBack(s, i) ==
    IF i < 1 THEN 0
    ELSE IF s[i] \in Whitespace THEN SkipWsBack(s, i - 1) ELSE i

\* str.strip()
Strip(s) == SubSeq(s, SkipWs(s, 1), SkipWsBack(s, Len(s)))

\* lit occurs in s at index i
OccursAt(s, i, lit) ==
    /\ i + Len(lit) - 1 <= Len(s)
    /\ SubSeq(s, i, i + Len(lit) - 1) = lit

\* str.startswith / str.endswith / "c in s"
StartsWith(s, lit) == OccursAt(s, 1, lit)
EndsWith(s, lit) == Len(lit) <= Len(s) /\ OccursAt(s, Len(s) - Len(lit) + 1, lit)
Contains(s, c) == \E i \in 1..Len(s) : s[i] = c

\* str.split(c) / re.split(c, s) for a one-character separator c:
\* empty pieces are kept.
RECURSIVE SplitOnFrom(_, _, _, _)
SplitOnFrom(s, c, start, i) ==
    IF i > Len(s) THEN << SubSeq(s, start, Len(s)) >>
    ELSE IF s[i] = c
         THEN << SubSeq(s, start, i - 1) >> \o SplitOnFrom(s, c, i + 1, i + 1)
         ELSE SplitOnFrom(s, c, start, i + 1)

SplitOn(s, c) == SplitOnFrom(s, c, 1, 1)

\* str.split() without argument: maximal runs of non-whitespace.
RECURSIVE WordEnd(_, _)
WordEnd(s, i) ==
    IF i > Len(s) THEN i
    ELSE IF s[i] \in Whitespace THEN i ELSE WordEnd(s, i + 1)

RECURSIVE SplitWsFrom(_, _)
SplitWsFrom(s, i) ==
    LET b == SkipWs(s, i)
        e == WordEnd(s, b)
    IN IF b > Len(s) THEN << >>
       ELSE << SubSeq(s, b, e - 1) >> \o SplitWsFrom(s, e)

SplitWs(s) == SplitWsFrom(s, 1)

\* x in list
InList(x, list) == \E i \in 1..Len(list) : list[i] = x

(***************************************************************************)
(* Configuration                                                            *)
(***************************************************************************)

ALLOWED_COMMANDS ==
    { <<"l","s">>, <<"c","a","t">>, <<"h","e","a","d">>, <<"t","a","i","l">>,
      <<"w","c">>, <<"g","r","e","p">>,
      <<"c","p">>, <<"m","k","d","i","r">>, <<"c","h","m","o","d">>,
      <<"p","w","d">>,
      <<"n","p","m">>, <<"n","o","d","e">>,
      <<"g","i","t">>,
      <<"p","s">>, <<"l","s","o","f">>, <<"s","l","e","e","p">>,
      <<"p","k","i","l","l">>,
      <<"i","n","i","t",".","s","h">> }

COMMANDS_NEEDING_EXTRA_VALIDATION ==
    { <<"p","k","i","l","l">>, <<"c","h","m","o","d">>,
      <<"i","n","i","t",".","s","h">> }

(***************************************************************************)
(* split_command_segments                                                   *)
(***************************************************************************)

\* "&&" or "||" at index j
IsAndOrAt(s, j) == OccursAt(s, j, <<"&","&">>) \/ OccursAt(s, j, <<"|","|">>)

\* re.split(r"\s*(?:&&|\|\|)\s*", s): the leftmost match starts at the first
\* index whose whitespace run is followed by an operator, and extends over
\* the operator and the whitespace after it.
RECURSIVE ReSplitAndOrFrom(_, _, _)
ReSplitAndOrFrom(s, start, i) ==
    IF i > Len(s) THEN << SubSeq(s, start, Len(s)) >>
    ELSE LET j == SkipWs(s, i)
         IN IF IsAndOrAt(s, j)
            THEN LET e == SkipWs(s, j + 2)
                 IN << SubSeq(s, start, i - 1) >> \o ReSplitAndOrFrom(s, e, e)
            ELSE ReSplitAndOrFrom(s, start, i + 1)

ReSplitAndOr(s) == ReSplitAndOrFrom(s, 1, 1)

\* The mutation of StrippedNonEmpty that keeps the empty pieces.
RECURSIVE StrippedKeepEmpty(_)
StrippedKeepEmpty(subs) ==
    IF subs = << >> THEN << >>
    ELSE << Strip(Head(subs)) >> \o StrippedKeepEmpty(Tail(subs))

\* The inner loop: the stripped, non-empty pieces of one segment around ";".
RECURSIVE StrippedNonEmpty(_)
StrippedNonEmpty(subs) ==
    IF subs = << >> THEN << >>
    ELSE LET t == Strip(Head(subs))
         IN (IF t # << >> THEN << t >> ELSE << >>) \o StrippedNonEmpty(Tail(subs))

RECURSIVE SegmentsOf(_)
SegmentsOf(segments) ==
    IF segments = << >> THEN << >>
    ELSE StrippedNonEmpty(SplitOn(Head(segments), ";")) \o SegmentsOf(Tail(segments))

split_command_segments(command_string) == SegmentsOf(ReSplitAndOr(command_string))

(***************************************************************************)
(* extract_commands                                                         *)
(***************************************************************************)

\* End (exclusive) of the match of \s*lit\s* (plus = FALSE) or \s+lit\s+
\* (plus = TRUE) starting at index i, or 0 when the pattern does not match
\* at i.
MatchSepAt(s, i, lit, plus) ==
    LET j == SkipWs(s, i)
        k == j + Len(lit)
        e == SkipWs(s, k)
    IN IF /\ OccursAt(s, j, lit)
          /\ plus => (j > i /\ e > k)
       THEN e ELSE 0

\* re.sub(pattern, " ", s) for the two pattern shapes above.
RECURSIVE ReSubSepFrom(_, _, _, _)
ReSubSepFrom(s, i, lit, plus) ==
    IF i > Len(s) THEN << >>
    ELSE LET e == MatchSepAt(s, i, lit, plus)
         IN IF e # 0 THEN << " " >> \o ReSubSepFrom(s, e, lit, plus)
            ELSE << s[i] >> \o ReSubSepFrom(s, i + 1, lit, plus)

ReSubSep(s, lit, plus) == ReSubSepFrom(s, 1, lit, plus)

\* The loop over the four separator patterns, in the order of the code.
Flatten(command_string) ==
    LET s1 == ReSubSep(command_string, <<";">>, FALSE)
        s2 == ReSubSep(s1, <<"&","&">>, TRUE)
        s3 == ReSubSep(s2, <<"|","|">>, TRUE)
    IN ReSubSep(s3, <<"|">>, FALSE)

\* part.split("/")[-1]
Basename(part) == LET p == SplitOn(part, "/") IN p[Len(p)]

\* The name a token contributes: basename, kept whole when it ends in .sh,
\* otherwise cut at the first ".".
CmdToAdd(part) ==
    LET cmd == Basename(part)
    IN IF EndsWith(cmd, <<".","s","h">>) THEN cmd
       ELSE IF Contains(cmd, ".") THEN SplitOn(cmd, ".")[1] ELSE cmd

\* The mutation of IsCandidate that takes assignments for commands.
IsCandidateWithAssignments(part) == part # << >> /\ ~StartsWith(part, <<"-">>)

\* Tokens that are neither flags nor assignments.
IsCandidate(part) == part # << >> /\ ~StartsWith(part, <<"-">>) /\ ~Contains(part, "=")

RECURSIVE CollectCommands(_, _)
CollectCommands(parts, commands) ==
    IF parts = << >> THEN commands
    ELSE LET part == Head(parts)
             add  == CmdToAdd(part)
         IN IF IsCandidate(part) /\ add # << >> /\ ~InList(add, commands)
            THEN CollectCommands(Tail(parts), Append(commands, add))
            ELSE CollectCommands(Tail(parts), commands)

Unknown == <<"u","n","k","n","o","w","n">>

extract_commands(command_string) ==
    LET commands == CollectCommands(SplitWs(Flatten(command_string)), << >>)
    IN IF commands # << >> THEN commands ELSE << Unknown >>

(***************************************************************************)
(* shlex.split (posix mode, whitespace_split, no comment characters)        *)
(***************************************************************************)

ShlexWhitespace == {" ", "\t", "\r", "\n"}
ShlexQuotes == {"'", "\""}
ShlexEscape == {"\\"}
ShlexEscapedQuotes == {"\""}

\* shlex.read_token, iterated over the whole input.  state is " " between
\* tokens, "a" inside a word, a quote character inside quotes and the escape
\* character after a backslash.  The result is [ok, tokens]; ok = FALSE
\* stands for the ValueError of an unclosed quote or a trailing backslash.
RECURSIVE ShlexRun(_, _, _, _, _, _, _)
ShlexRun(s, i, state, escapedstate, token, quoted, tokens) ==
    IF i > Len(s)
    THEN IF state \in ShlexQuotes \/ state \in ShlexEscape
         THEN [ok |-> FALSE, tokens |-> << >>]
         ELSE IF state = "a" /\ (token # << >> \/ quoted)
              THEN [ok |-> TRUE, tokens |-> Append(tokens, token)]
              ELSE [ok |-> TRUE, tokens |-> tokens]
    ELSE LET c == s[i] IN
      IF state = " " THEN
         IF c \in ShlexWhitespace
         THEN ShlexRun(s, i + 1, " ", escapedstate, token, quoted, tokens)
         ELSE IF c \in ShlexEscape
         THEN ShlexRun(s, i + 1, c, "a", token, quoted, tokens)
         ELSE IF c \in ShlexQuotes
         THEN ShlexRun(s, i + 1, c, escapedstate, token, quoted, tokens)
         ELSE ShlexRun(s, i + 1, "a", escapedstate, << c >>, quoted, tokens)
      ELSE IF state \in ShlexQuotes THEN
         IF c = state
         THEN ShlexRun(s, i + 1, "a", escapedstate, token, TRUE, tokens)
         ELSE IF c \in ShlexEscape /\ state \in ShlexEscapedQuotes
         THEN ShlexRun(s, i + 1, c, state, token, TRUE, tokens)
         ELSE ShlexRun(s, i + 1, state, escapedstate, Append(token, c), TRUE, tokens)
      ELSE IF state \in ShlexEscape THEN
         LET kept == IF escapedstate \in ShlexQuotes /\ c # state /\ c # escapedstate
                     THEN Append(token, state) ELSE token
         IN ShlexRun(s, i + 1, escapedstate, escapedstate, Append(kept, c), quoted, tokens)
      ELSE \* state = "a"
         IF c \in ShlexWhitespace
         THEN IF token # << >> \/ quoted
              THEN ShlexRun(s, i + 1, " ", " ", << >>, FALSE, Append(tokens, token))
              ELSE ShlexRun(s, i + 1, " ", escapedstate, token, quoted, tokens)
         ELSE IF c \in ShlexQuotes
         THEN ShlexRun(s, i + 1, c, escapedstate, token, quoted, tokens)
         ELSE IF c \in ShlexEscape
         THEN ShlexRun(s, i + 1, c, "a", token, quoted, tokens)
         ELSE ShlexRun(s, i + 1, "a", escapedstate, Append(token, c), quoted, tokens)

shlex_split(s) == ShlexRun(s, 1, " ", " ", << >>, FALSE, << >>)

(***************************************************************************)
(* Per-command validators: the result is the returned (allowed, reason),    *)
(* or raised = TRUE when the call ends in an uncaught exception.            *)
(***************************************************************************)

Allow == [allowed |-> TRUE, reason |-> "", raised |-> FALSE]
Deny(reason) == [allowed |-> FALSE, reason |-> reason, raised |-> FALSE]
Raise(exc) == [allowed |-> FALSE, reason |-> exc, raised |-> TRUE]

\* [t for t in tokens if not t.startswith("-")]
RECURSIVE NonFlags(_)
NonFlags(tokens) ==
    IF tokens = << >> THEN << >>
    ELSE (IF StartsWith(Head(tokens), <<"-">>) THEN << >> ELSE << Head(tokens) >>)
         \o NonFlags(Tail(tokens))

allowed_process_names ==
    { <<"n","o","d","e">>, <<"n","p","m">>, <<"n","p","x">>,
      <<"v","i","t","e">>, <<"n","e","x","t">> }

validate_pkill_command(command_string) ==
    LET lexed  == shlex_split(command_string)
        tokens == lexed.tokens
        args   == NonFlags(Tail(tokens))
        last   == args[Len(args)]
        words  == SplitWs(last)
    IN IF ~lexed.ok THEN Deny("Could not parse pkill command")
       ELSE IF tokens = << >> THEN Deny("Empty pkill command")
       ELSE IF args = << >> THEN Deny("pkill requires a process name")
       ELSE IF Contains(last, " ") /\ words = << >> THEN Raise("IndexError")
       ELSE LET target == IF Contains(last, " ") THEN words[1] ELSE last
            IN IF target \in allowed_process_names THEN Allow
               ELSE Deny("pkill only allowed for dev processes")

\* Length of the longest prefix of mode made of the letters u, g, o, a.
RECURSIVE WhoLen(_, _)
WhoLen(mode, i) ==
    IF i <= Len(mode) /\ mode[i] \in {"u", "g", "o", "a"} THEN WhoLen(mode, i + 1)
    ELSE i - 1

\* re.match(r"^[ugoa]*\+x$", mode): "$" matches at the end of the string and
\* also just before a newline that ends the string.
ModeMatches(mode) ==
    LET k == WhoLen(mode, 1) + 1
    IN /\ OccursAt(mode, k, <<"+","x">>)
       /\ \/ Len(mode) = k + 1
          \/ Len(mode) = k + 2 /\ mode[k + 2] = "\n"

validate_chmod_command(command_string) ==
    LET lexed  == shlex_split(command_string)
        tokens == lexed.tokens
        rest   == Tail(tokens)
    IN IF ~lexed.ok THEN Deny("Could not parse chmod command")
       ELSE IF tokens = << >> \/ tokens[1] # <<"c","h","m","o","d">>
       THEN Deny("Not a chmod command")
       ELSE IF \E i \in 1..Len(rest) : StartsWith(rest[i], <<"-">>)
       THEN Deny("chmod flags are not allowed")
       ELSE IF rest = << >> THEN Deny("chmod requires a mode")
       ELSE IF Len(rest) = 1 THEN Deny("chmod requires at least one file")
       ELSE IF ~ModeMatches(rest[1]) THEN Deny("chmod only allowed with +x mode")
       ELSE Allow

validate_init_script(command_string) ==
    LET lexed  == shlex_split(command_string)
        tokens == lexed.tokens
    IN IF ~lexed.ok THEN Deny("Could not parse init script command")
       ELSE IF tokens = << >> THEN Deny("Empty command")
       ELSE IF \/ tokens[1] = <<".","/","i","n","i","t",".","s","h">>
               \/ EndsWith(tokens[1], <<"/","i","n","i","t",".","s","h">>)
       THEN Allow
       ELSE Deny("Only ./init.sh is allowed")

(***************************************************************************)
(* bash_security_hook                                                       *)
(***************************************************************************)

RECURSIVE get_command_for_validation(_, _)
get_command_for_validation(cmd, segments) ==
    IF segments = << >> THEN << >>
    ELSE IF InList(cmd, extract_commands(Head(segments))) THEN Head(segments)
    ELSE get_command_for_validation(cmd, Tail(segments))

\* The hook's return value: {} is decision "allow"; a validator's uncaught
\* exception leaves the hook as decision "raise".
HookAllow == [decision |-> "allow", reason |-> ""]
HookBlock(reason) == [decision |-> "block", reason |-> reason]
HookRaise(exc) == [decision |-> "raise", reason |-> exc]

NotAllowedReason == "Command is not in the allowed commands list"
ParseReason == "Could not parse command for security validation"

\* The validator the hook dispatches to for an extra-validated command.
ExtraValidation(cmd, cmd_segment) ==
    IF cmd = <<"p","k","i","l","l">> THEN validate_pkill_command(cmd_segment)
    ELSE IF cmd = <<"c","h","m","o","d">> THEN validate_chmod_command(cmd_segment)
    ELSE IF cmd = <<"i","n","i","t",".","s","h">> THEN validate_init_script(cmd_segment)
    ELSE Allow

\* The loop "for cmd in commands" with its early returns.
RECURSIVE HookLoop(_, _, _)
HookLoop(commands, segments, cmdstr) ==
    IF commands = << >> THEN HookAllow
    ELSE LET cmd == Head(commands)
         IN IF cmd \notin ALLOWED_COMMANDS THEN HookBlock(NotAllowedReason)
            ELSE IF cmd \in COMMANDS_NEEDING_EXTRA_VALIDATION
            THEN LET found == get_command_for_validation(cmd, segments)
                     cmd_segment == IF found # << >> THEN found ELSE cmdstr
                     v == ExtraValidation(cmd, cmd_segment)
                 IN IF v.raised THEN HookRaise(v.reason)
                    ELSE IF ~v.allowed THEN HookBlock(v.reason)
                    ELSE HookLoop(Tail(commands), segments, cmdstr)
            ELSE HookLoop(Tail(commands), segments, cmdstr)

bash_security_hook(tool, cmdstr) ==
    IF tool # "Bash" THEN HookAllow
    ELSE IF cmdstr = << >> THEN HookAllow
    ELSE LET commands == extract_commands(cmdstr)
         IN IF commands = << >> THEN HookBlock(ParseReason)
            ELSE HookLoop(commands, split_command_segments(cmdstr), cmdstr)

(***************************************************************************)
(* Inputs: command strings are concatenations of a bounded number of        *)
(* lexemes, together with the examples the documentation names.             *)
(***************************************************************************)

MaxSegmentPieces == 5
MaxExtractPieces == 4
MaxValidatorPieces == 4
MaxGatePieces == 4
MaxChain == 3

\* All concatenations of at most n elements of Lex.
RECURSIVE Concats(_, _)
Concats(Lex, n) ==
    IF n = 0 THEN { << >> }
    ELSE LET P == Concats(Lex, n - 1)
         IN P \cup { p \o l : p \in P, l \in Lex }

SegmentLex == { <<"a">>, <<"b">>, <<" ">>, <<";">>, <<"&">>, <<"|">> }

ExampleABCD == <<"a",";"," ","b"," ","&","&"," ","c"," ","|","|"," ","d">>

SegmentInputs == Concats(SegmentLex, MaxSegmentPieces) \cup { ExampleABCD }

ExtractLex ==
    { <<"a">>, <<"b">>, <<" ">>, <<";">>, <<"|">>, <<"&","&">>, <<"-">>,
      <<"=">>, <<"/">>, <<".">>, <<".","s","h">> }

ExampleInitFlag == <<".","/","i","n","i","t",".","s","h"," ","-","-","f","l","a","g"," ","f","o","o","=","b","a","r">>

ExtractInputs == Concats(ExtractLex, MaxExtractPieces) \cup { ExampleInitFlag }

ChmodLex ==
    { <<"c","h","m","o","d">>, <<" ">>, <<"+","x">>, <<"u">>,
      <<"7","5","5">>, <<"-","R">>, <<"f">>, <<"'">>, <<"\n">> }

PkillLex ==
    { <<"p","k","i","l","l">>, <<" ">>, <<"n","o","d","e">>,
      <<"s","s","h","d">>, <<"-","9">>, <<"l","s">>, <<"'">> }

InitScriptLex ==
    { <<".","/">>, <<"i","n","i","t",".","s","h">>, <<"s","h">>, <<" ">>,
      <<"/">>, <<"t","m","p">> }

ExampleChmodNewline == <<"c","h","m","o","d"," ","'","+","x","\n","'"," ","f">>
ExampleChmodFlag == <<"c","h","m","o","d"," ","-","R"," ","+","x"," ","f">>
ExampleChmodWho == <<"c","h","m","o","d"," ","u","+","x"," ","f">>
ExampleInitElsewhere == <<"/","t","m","p","/","x","/","i","n","i","t",".","s","h">>

ExamplePkillNewline == <<"p","k","i","l","l"," ","'","n","o","d","e","\n","x","'">>
ExamplePkillBlank == <<"p","k","i","l","l"," ","'"," ","'">>

ValidatorInputs ==
    Concats(ChmodLex, MaxValidatorPieces)
    \cup Concats(PkillLex, MaxValidatorPieces)
    \cup Concats(InitScriptLex, MaxValidatorPieces)
    \cup { ExampleChmodNewline, ExampleChmodFlag, ExampleChmodWho,
           ExampleInitElsewhere, ExamplePkillNewline, ExamplePkillBlank }

GateTokenLex ==
    { <<"l","s">>, <<"r","m">>, <<" ">>, <<";">>, <<"&","&">>, <<"|">>,
      <<".">>, <<"-">>, <<"=">>, <<"/">> }

GateCommandLex ==
    { <<"p","k","i","l","l"," ","n","o","d","e">>,
      <<"p","k","i","l","l"," ","g","i","t">>,
      <<"p","k","i","l","l"," ","n","p","x">>,
      <<"p","k","i","l","l"," ","-","9"," ","s","s","h","d">>,
      <<"c","h","m","o","d"," ","+","x"," ","f">>,
      <<".","/","i","n","i","t",".","s","h">>, <<"l","s">>, <<";">>,
      <<" ","&","&"," ">>, <<" ","|"," ">> }

ExampleChain == <<"l","s"," ","&","&"," ","p","k","i","l","l"," ","n","p","x"," ","&","&"," ","r","m"," ","-","r","f"," ","/">>

ExampleChainNoSpace == <<"l","s"," ",".","&","&","r","m"," ","-","r","f"," ","/">>
ExamplePkillPipe == <<"p","k","i","l","l"," ","g","i","t"," ","|"," ","l","s"," ","n","o","d","e">>

GateInputs ==
    Concats(GateTokenLex, MaxGatePieces)
    \cup Concats(GateCommandLex, MaxChain)
    \cup { ExampleChain, ExampleChainNoSpace, ExamplePkillPipe }

(***************************************************************************)
(* State machine: one call of one function of the module on one input.      *)
(***************************************************************************)

NoNames == << >>
NoResult == [decision |-> "none", reason |-> ""]

InitWith(Tools, Inputs) ==
    /\ tool_name \in Tools
    /\ command \in Inputs
    /\ pc = "call"
    /\ names = NoNames
    /\ result = NoResult

SplitCommandSegments ==
    /\ pc = "call"
    /\ names' = split_command_segments(command)
    /\ pc' = "split_command_segments"
    /\ UNCHANGED <<tool_name, command, result>>

ExtractCommands ==
    /\ pc = "call"
    /\ names' = extract_commands(command)
    /\ pc' = "extract_commands"
    /\ UNCHANGED <<tool_name, command, result>>

ValidatePkillCommand ==
    /\ pc = "call"
    /\ result' = validate_pkill_command(command)
    /\ pc' = "validate_pkill_command"
    /\ UNCHANGED <<tool_name, command, names>>

ValidateChmodCommand ==
    /\ pc = "call"
    /\ result' = validate_chmod_command(command)
    /\ pc' = "validate_chmod_command"
    /\ UNCHANGED <<tool_name, command, names>>

ValidateInitScript ==
    /\ pc = "call"
    /\ result' = validate_init_script(command)
    /\ pc' = "validate_init_script"
    /\ UNCHANGED <<tool_name, command, names>>

BashSecurityHook ==
    /\ pc = "call"
    /\ result' = bash_security_hook(tool_name, command)
    /\ pc' = "bash_security_hook"
    /\ UNCHANGED <<tool_name, command, names>>

\* The gate, as the harness calls it before every tool use.
Init == InitWith({"Bash", "Read"}, GateInputs)
Next == BashSecurityHook
Spec == Init /\ [][Next]_vars

\* The segmenter on its own.
InitSegment == InitWith({"Bash"}, SegmentInputs)
NextSegment == SplitCommandSegments
SpecSegment == InitSegment /\ [][NextSegment]_vars

\* The command extractor on its own.
InitExtract == InitWith({"Bash"}, ExtractInputs)
NextExtract == ExtractCommands
SpecExtract == InitExtract /\ [][NextExtract]_vars

\* The three per-command validators on single segments.
InitValidate == InitWith({"Bash"}, ValidatorInputs)
NextValidate == ValidatePkillCommand \/ ValidateChmodCommand \/ ValidateInitScript
SpecValidate == InitValidate /\ [][NextValidate]_vars

(***************************************************************************)
(* Vocabulary of the properties, stated on positions of the input string    *)
(***************************************************************************)

MinOf(S) == CHOOSE x \in S : \A y \in S : x <= y
MaxOf(S) == CHOOSE x \in S : \A y \in S : x >= y

\* s without its leading and trailing whitespace
Trimmed(s) ==
    LET solid == { i \in 1..Len(s) : s[i] \notin Whitespace }
    IN IF solid = {} THEN << >> ELSE SubSeq(s, MinOf(solid), MaxOf(solid))

\* The pieces of s between the operators ";", "&&" and "||" (and the single
\* "|" when pipes = TRUE), read left to right.
RECURSIVE PiecesBetween(_, _, _, _)
PiecesBetween(s, i, piece, pipes) ==
    IF i > Len(s) THEN << piece >>
    ELSE IF OccursAt(s, i, <<"&","&">>) \/ (~pipes /\ OccursAt(s, i, <<"|","|">>))
    THEN << piece >> \o PiecesBetween(s, i + 2, << >>, pipes)
    ELSE IF s[i] = ";" \/ (pipes /\ s[i] = "|")
    THEN << piece >> \o PiecesBetween(s, i + 1, << >>, pipes)
    ELSE PiecesBetween(s, i + 1, Append(piece, s[i]), pipes)

TrimmedPieces(s, pipes) ==
    LET pieces == PiecesBetween(s, 1, << >>, pipes)
    IN SelectSeq([i \in 1..Len(pieces) |-> Trimmed(pieces[i])],
                 LAMBDA x : x # << >>)

\* <<i, j>> such that s[i..j] is a maximal run of characters outside Delims
RunsOutside(s, Delims) ==
    { sp \in (1..Len(s)) \X (1..Len(s)) :
        /\ sp[1] <= sp[2]
        /\ \A k \in sp[1]..sp[2] : s[k] \notin Delims
        /\ sp[1] = 1 \/ s[sp[1] - 1] \in Delims
        /\ sp[2] = Len(s) \/ s[sp[2] + 1] \in Delims }

At(s, sp) == SubSeq(s, sp[1], sp[2])

\* w after its last "/"
PathStripped(w) ==
    SubSeq(w, MaxOf({0} \cup { i \in 1..Len(w) : w[i] = "/" }) + 1, Len(w))

\* The name of a token: path-stripped, and cut before its first "." unless
\* it ends in the script suffix.
NameOf(w) ==
    LET base == PathStripped(w)
        dots == { i \in 1..Len(base) : base[i] = "." }
        n    == Len(base)
    IN IF dots = {} THEN base
       ELSE IF n >= 3 /\ SubSeq(base, n - 2, n) = <<".","s","h">> THEN base
       ELSE SubSeq(base, 1, MinOf(dots) - 1)

NoDuplicates(list) ==
    \A i, j \in 1..Len(list) : list[i] = list[j] => i = j

(***************************************************************************)
(* split_command_segments                                                   *)
(***************************************************************************)

\* C4: split_command_segments returns the pieces between the operators ";",
\* "&&" and "||" in their order of appearance, each trimmed of surrounding
\* whitespace and none empty; "a; b && c || d" yields a, b, c, d.
SegmentationLaw ==
    pc = "split_command_segments" =>
        /\ names = TrimmedPieces(command, FALSE)
        /\ \A i \in 1..Len(names) :
              /\ names[i] # << >>
              /\ names[i][1] \notin Whitespace
              /\ names[i][Len(names[i])] \notin Whitespace
        /\ command = ExampleABCD => names = << <<"a">>, <<"b">>, <<"c">>, <<"d">> >>

\* The documented four-segment example has been split.
SegmentationWitness ==
    /\ pc = "split_command_segments"
    /\ command = ExampleABCD
    /\ Len(names) = 4

(***************************************************************************)
(* extract_commands                                                         *)
(***************************************************************************)

\* Tokens of the command: the runs between whitespace, ";" and "|".
CommandTokens(s) == RunsOutside(s, Whitespace \cup {";", "|"})

\* Tokens that are neither flags nor assignments and that have a name.
NamedTokens(s) ==
    { sp \in CommandTokens(s) :
        /\ s[sp[1]] # "-"
        /\ \A k \in sp[1]..sp[2] : s[k] # "="
        /\ NameOf(At(s, sp)) # << >> }

\* A "&&" between whitespace is a separator, elsewhere it is a token: the
\* names are compared up to this one.
AndOperator == <<"&","&">>

\* Position of the first token of s named n.
FirstNamed(s, n) == MinOf({ sp[1] : sp \in { q \in NamedTokens(s) : NameOf(At(s, q)) = n } })

\* C5: extract_commands returns a non-empty list without duplicates, in
\* first-occurrence order, in which no name is empty, contains "/", or comes
\* from a token beginning with "-" or containing "=", and every name not
\* ending in .sh contains no "."; "./init.sh --flag foo=bar" yields
\* ["init.sh"].
ExtractionInvariant ==
    pc = "extract_commands" =>
        /\ names # << >>
        /\ NoDuplicates(names)
        /\ \A i \in 1..Len(names) :
              /\ names[i] # << >>
              /\ ~Contains(names[i], "/")
              /\ ~Contains(names[i], "=")
              /\ ~EndsWith(names[i], <<".","s","h">>) => ~Contains(names[i], ".")
        /\ \/ names = << Unknown >>
           \/ \A i \in 1..Len(names) :
                 \E sp \in NamedTokens(command) : NameOf(At(command, sp)) = names[i]
        /\ NamedTokens(command) = {} => names = << Unknown >>
        /\ (NamedTokens(command) # {} /\ names # << Unknown >>) =>
              /\ { names[i] : i \in 1..Len(names) } \ { AndOperator }
                    = { NameOf(At(command, sp)) : sp \in NamedTokens(command) }
                         \ { AndOperator }
              /\ \A i, j \in 1..Len(names) :
                    (i < j /\ names[i] # AndOperator /\ names[j] # AndOperator)
                       => FirstNamed(command, names[i]) < FirstNamed(command, names[j])
        /\ command = ExampleInitFlag => names = << <<"i","n","i","t",".","s","h">> >>

\* The documented example has been extracted: the flag and the assignment
\* are left out and the script keeps its suffix.
ExtractionWitness ==
    /\ pc = "extract_commands"
    /\ command = ExampleInitFlag
    /\ names = << <<"i","n","i","t",".","s","h">> >>

\* C9: for plain names a and b joined by one of ";", "&&", "||", "|" without
\* whitespace, extract_commands returns what it returns with whitespace
\* around the separator, namely [a, b].
SeparatorsWithoutWhitespace ==
    pc = "extract_commands" =>
        \A a, b \in { <<"a">>, <<"b">> } :
          \A sep \in { <<";">>, <<"&","&">>, <<"|","|">>, <<"|">> } :
            (a # b /\ command = a \o sep \o b) =>
                /\ names = extract_commands(a \o <<" ">> \o sep \o <<" ">> \o b)
                /\ names = << a, b >>

(***************************************************************************)
(* Per-command validators                                                   *)
(***************************************************************************)

\* The validator returned (True, "").
Allowed(v) == v.allowed /\ ~v.raised

\* mode is zero or more of u, g, o, a followed by exactly "+x".
ExecutableMode(mode) ==
    LET n == Len(mode)
    IN /\ n >= 2
       /\ mode[n - 1] = "+"
       /\ mode[n] = "x"
       /\ \A i \in 1..(n - 2) : mode[i] \in {"u", "g", "o", "a"}

\* C6: validate_chmod_command allows a segment if and only if it tokenizes
\* without error, its first token is chmod, no later token begins with "-",
\* the first later token is zero or more of u, g, o, a followed by exactly
\* "+x", and at least one file token follows the mode.
ChmodAllowsExactly ==
    pc = "validate_chmod_command" =>
        LET lexed  == shlex_split(command)
            tokens == lexed.tokens
        IN Allowed(result) <=>
              /\ lexed.ok
              /\ Len(tokens) >= 3
              /\ tokens[1] = <<"c","h","m","o","d">>
              /\ \A i \in 2..Len(tokens) : ~StartsWith(tokens[i], <<"-">>)
              /\ ExecutableMode(tokens[2])

\* C7: validate_init_script allows a segment only when its first token is
\* the relative invocation ./init.sh; a bare init.sh, sh init.sh and an
\* absolute path to an init.sh elsewhere are denied.
InitScriptOnlyRelative ==
    pc = "validate_init_script" =>
        (Allowed(result) =>
            LET lexed == shlex_split(command)
            IN /\ lexed.ok
               /\ lexed.tokens # << >>
               /\ lexed.tokens[1] = <<".","/","i","n","i","t",".","s","h">>)

\* The first whitespace-separated word of target.
FirstWord(target) ==
    LET words == RunsOutside(target, Whitespace)
    IN IF words = {} THEN << >>
       ELSE At(target, CHOOSE sp \in words : \A q \in words : sp[1] <= q[1])

\* C8: validate_pkill_command allows a segment if and only if it tokenizes
\* without error, its first token is pkill, at least one later token does not
\* begin with "-", and the last such token (its first word, if it contains
\* whitespace) is one of node, npm, npx, vite, next.
PkillAllowsExactly ==
    pc = "validate_pkill_command" =>
        LET lexed  == shlex_split(command)
            tokens == lexed.tokens
            args   == { i \in 2..Len(tokens) : tokens[i] = << >> \/ tokens[i][1] # "-" }
        IN Allowed(result) <=>
              /\ lexed.ok
              /\ tokens # << >>
              /\ tokens[1] = <<"p","k","i","l","l">>
              /\ args # {}
              /\ FirstWord(tokens[MaxOf(args)]) \in allowed_process_names

(***************************************************************************)
(* bash_security_hook                                                       *)
(***************************************************************************)

\* The hook was called for a Bash tool use.
Gated == pc = "bash_security_hook" /\ tool_name = "Bash"

\* The words of a pipeline stage, as positions.
Words(stage) == RunsOutside(stage, Whitespace)

\* The program a pipeline stage invokes: its first word, path-stripped.
Program(stage) ==
    LET words == Words(stage)
    IN PathStripped(At(stage, CHOOSE sp \in words : \A q \in words : sp[1] <= q[1]))

\* The chained segments and pipeline stages of the command.
Stages(s) == TrimmedPieces(s, TRUE)

\* C1: a command string in which some chained segment or pipeline stage
\* invokes a program whose path-stripped first token is not in
\* ALLOWED_COMMANDS is blocked, wherever that part stands in the chain.
DisallowedProgramBlocked ==
    Gated =>
        LET stages == Stages(command)
        IN (\E i \in 1..Len(stages) : Program(stages[i]) \notin ALLOWED_COMMANDS)
              => result.decision = "block"

\* Every token of the flattened command is a flag or an assignment.
NoUsableToken(s) ==
    LET parts == SplitWs(Flatten(s))
    IN \A i \in 1..Len(parts) :
          StartsWith(parts[i], <<"-">>) \/ Contains(parts[i], "=")

\* C2: a non-empty command string in which extract_commands finds no usable
\* token is blocked with the reason that the command could not be parsed for
\* security validation.
UnparsableBlockedAsUnparsable ==
    (Gated /\ command # << >> /\ NoUsableToken(command)) =>
        /\ result.decision = "block"
        /\ result.reason = ParseReason

\* The target of a pkill invocation is in the dev-process set.
PkillStageOnDevProcess(stage) ==
    LET words == Words(stage)
        first == CHOOSE sp \in words : \A q \in words : sp[1] <= q[1]
        args  == { sp \in words : sp # first /\ stage[sp[1]] # "-" }
    IN /\ args # {}
       /\ At(stage, CHOOSE sp \in args : \A q \in args : sp[1] >= q[1])
             \in allowed_process_names

\* C3: whenever the hook allows a command string, every pkill invocation in
\* it, in whichever segment and also before a pipe, has a target in
\* {node, npm, npx, vite, next}.
AllowedPkillsOnDevProcesses ==
    (Gated /\ result.decision = "allow") =>
        LET stages == Stages(command)
        IN \A i \in 1..Len(stages) :
              Program(stages[i]) = <<"p","k","i","l","l">>
                 => PkillStageOnDevProcess(stages[i])

\* The command is a single invocation: no separator, pipe or quoting.
SingleInvocation(s) ==
    /\ s # << >>
    /\ \A i \in 1..Len(s) : s[i] \notin {";", "&", "|", "'", "\"", "\\"}

\* C10: a command string that is one pkill or one chmod invocation which its
\* validator allows is allowed by the hook.
GateAgreesWithValidators ==
    Gated =>
        /\ (/\ SingleInvocation(command)
            /\ StartsWith(command, <<"p","k","i","l","l"," ">>)
            /\ Allowed(validate_pkill_command(command)))
              => result.decision = "allow"
        /\ (/\ SingleInvocation(command)
            /\ StartsWith(command, <<"c","h","m","o","d"," ">>)
            /\ Allowed(validate_chmod_command(command)))
              => result.decision = "allow"

====
